---- MODULE Spec2Model ----
(***************************************************************************)
(* sol-whale-watch: a log subscription (producer, main) feeds transaction  *)
(* signatures through a bounded mpsc channel to a dispatcher task, which   *)
(* spawns one enrichment task (process_transaction) per signature; a task  *)
(* looks the transaction up, compares the balance change of account 0 with *)
(* a threshold and, if it qualifies, calls send_telegram_alert.            *)
(***************************************************************************)
EXTENDS Integers, Sequences, FiniteSets, TLC

\* ------------------------------------------------------------------ bounds
\* Number of log events the subscription delivers before the stream ends.
MaxEvents == 3
\* Capacity of the mpsc channel.  main.rs:27 creates it with 100; the model
\* scales it down so that, with MaxEvents events, the queue fills up while
\* a task started earlier is still in flight (MaxEvents >= Capacity + 2).
Capacity == 1

Ids == 1..MaxEvents

VARIABLES
    mainPc,      \* position of main: connect, subscribe, next, send, exit_ok, exit_err
    delivered,   \* number of log events the stream has yielded so far
    pending,     \* the signature main is sending (0 when none)
    queue,       \* contents of the mpsc channel, oldest first
    dispPc,      \* dispatcher task: recv, exited (recv gave None), cancelled
    runtimeUp,   \* the tokio runtime is alive (it is dropped when main returns)
    tasks,       \* per signature: the enrichment task's position, the class of
                 \* its lookup's answer, its numbers of lookups, of calls of
                 \* send_telegram_alert and of POSTs
    env,         \* which of TELEGRAM_TOKEN / TELEGRAM_CHAT_ID are set
    failedIds,   \* history: events delivered with logs.err present
    enq,         \* history: signatures enqueued, in order
    started,     \* history: signatures for which a task was spawned, in order
    probe        \* one task run in isolation: the answer its lookup gets, the
                 \* build's overflow checks, the task, and how its POST ended

vars == <<mainPc, delivered, pending, queue, dispPc, runtimeUp, tasks, env,
          failedIds, enq, started, probe>>


\* ------------------------------------------------------- 64-bit arithmetic
\* Balances are u64 lamports.  A number is kept as three decimal limbs
\* <<a, b, c>> = a * 10^18 + b * 10^9 + c, so that every 64-bit value and
\* every intermediate result is exact.  One SOL is 10^9 lamports
\* (main.rs:78), so limb c is the fractional SOL part in lamports and
\* limbs a, b the whole SOL.
LamportsPerSol == 1000000000
Limb == LamportsPerSol

Zero == <<0, 0, 0>>
TwoP63 == <<9, 223372036, 854775808>>
TwoP64 == <<18, 446744073, 709551616>>
I64Max == <<9, 223372036, 854775807>>
U64Max == <<18, 446744073, 709551615>>

BLt(x, y) ==
    \/ x[1] < y[1]
    \/ x[1] = y[1] /\ x[2] < y[2]
    \/ x[1] = y[1] /\ x[2] = y[2] /\ x[3] < y[3]

BLe(x, y) == x = y \/ BLt(x, y)

\* x + y
BAdd(x, y) ==
    LET c0 == x[3] + y[3]
        k3 == IF c0 >= Limb THEN 1 ELSE 0
        b0 == x[2] + y[2] + k3
        k2 == IF b0 >= Limb THEN 1 ELSE 0
    IN  <<x[1] + y[1] + k2, b0 - k2 * Limb, c0 - k3 * Limb>>

\* x - y, for x >= y
BSub(x, y) ==
    LET c0 == x[3] - y[3]
        k3 == IF c0 < 0 THEN 1 ELSE 0
        b0 == x[2] - y[2] - k3
        k2 == IF b0 < 0 THEN 1 ELSE 0
    IN  <<x[1] - y[1] - k2, b0 + k2 * Limb, c0 + k3 * Limb>>

\* Signed numbers: sign and magnitude; zero is never negative.
Signed(neg, mag) == [neg |-> neg /\ mag # Zero, mag |-> mag]

MinI64 == Signed(TRUE, TwoP63)

\* `u as i64` (main.rs:77): reinterprets the 64 bits, so values of 2^63 and
\* above become negative.  The cast never traps.
AsI64(u) ==
    IF BLt(u, TwoP63) THEN Signed(FALSE, u) ELSE Signed(TRUE, BSub(TwoP64, u))

\* the exact difference x - y of two signed numbers
SSub(x, y) ==
    IF x.neg # y.neg
    THEN Signed(x.neg, BAdd(x.mag, y.mag))
    ELSE IF BLe(y.mag, x.mag)
         THEN Signed(x.neg, BSub(x.mag, y.mag))
         ELSE Signed(~x.neg, BSub(y.mag, x.mag))

InI64(s) == IF s.neg THEN BLe(s.mag, TwoP63) ELSE BLt(s.mag, TwoP63)

\* two's-complement wrap of an out-of-range result with |s| < 2^64
WrapI64(s) == IF InI64(s) THEN s ELSE Signed(~s.neg, BSub(TwoP64, s.mag))

\* `sol_amount > 0.1` (main.rs:78,81) where sol_amount = diff as f64 / 1e9.
\* The conversion and the division round to nearest and are monotone, and
\* 10^8 / 10^9 rounds to the same double as the literal 0.1, so for an
\* integer diff the test is diff > 10^8 lamports; a negative diff fails it.
ExceedsThreshold(diff) ==
    /\ ~diff.neg
    /\ \/ diff.mag[1] > 0
       \/ diff.mag[2] > 0
       \/ diff.mag[3] > LamportsPerSol \div 10

\* mutant of DiffLamports: `.abs()` is missing, the signed difference is kept
DiffLamportsNoAbs(pre, post, checks) ==
    LET d == SSub(AsI64(pre), AsI64(post))
    IN  IF ~InI64(d) /\ checks
        THEN [panic |-> TRUE, val |-> Signed(FALSE, Zero)]
        ELSE [panic |-> FALSE, val |-> WrapI64(d)]

\* main.rs:75-77  `(pre_bal as i64 - post_bal as i64).abs()`: the value of
\* `diff`, or a panic.  With overflow checks the subtraction panics when its
\* result leaves i64 and `.abs()` panics on i64::MIN; without them the
\* subtraction wraps and `.abs()` returns i64::MIN unchanged.
DiffLamports(pre, post, checks) ==
    LET d == SSub(AsI64(pre), AsI64(post))
        w == WrapI64(d)
    IN  IF (~InI64(d) \/ w = MinI64) /\ checks
        THEN [panic |-> TRUE, val |-> Signed(FALSE, Zero)]
        ELSE IF w = MinI64
             THEN [panic |-> FALSE, val |-> MinI64]
             ELSE [panic |-> FALSE, val |-> Signed(FALSE, w.mag)]

\* `.abs()` on i64 (main.rs:77): i64::MIN has no positive counterpart; with
\* overflow checks the call panics, without them it returns i64::MIN.
AbsThenCompare(d, checks) ==
    IF d = MinI64
    THEN IF checks THEN "panic"
         ELSE IF ExceedsThreshold(d) THEN "alert" ELSE "skip"
    ELSE IF ExceedsThreshold(Signed(FALSE, d.mag)) THEN "alert" ELSE "skip"

\* ------------------------------------------------------- lookup responses
Balances ==
    { Zero, <<0, 0, 800000000>>, <<0, 0, 900000000>>, <<0, 0, 950000000>>,
      <<0, 1, 0>>, I64Max, TwoP63, U64Max }

\* balance lists: empty, one account, or two accounts
BalanceLists ==
    {<<>>} \cup {<<v>> : v \in Balances} \cup {<<v, Zero>> : v \in Balances}

Response(kind, pre, post) == [kind |-> kind, pre |-> pre, post |-> post]

\* what get_transaction can answer (main.rs:69): an error (not found, or a
\* transport failure), a transaction without meta, or one with balances
Responses ==
    {Response(k, <<>>, <<>>) : k \in {"not_found", "transport_error", "no_meta"}}
    \cup {Response("meta", pre, post) : pre \in BalanceLists, post \in BalanceLists}

\* mutant of Evaluate: the length test of main.rs:73 is missing, so element
\* 0 of an empty list is indexed and the task panics
EvaluateNoLengthTest(resp, checks) ==
    IF resp.kind # "meta" THEN "skip"
    ELSE IF Len(resp.pre) = 0 \/ Len(resp.post) = 0 THEN "panic"
    ELSE LET d == SSub(AsI64(resp.pre[1]), AsI64(resp.post[1]))
         IN  IF InI64(d) THEN AbsThenCompare(d, checks)
             ELSE IF checks THEN "panic"
             ELSE AbsThenCompare(WrapI64(d), checks)

\* main.rs:71-96, from the lookup's answer to the decision: "skip" is
\* returning Ok(()) without an alert, "alert" is reaching the call of
\* send_telegram_alert, "panic" is an arithmetic overflow panic.  `checks`
\* says whether the build has overflow checks (debug) or wraps (release).
Evaluate(resp, checks) ==
    IF resp.kind # "meta" THEN "skip"
    ELSE IF Len(resp.pre) = 0 \/ Len(resp.post) = 0 THEN "skip"
    ELSE LET d == SSub(AsI64(resp.pre[1]), AsI64(resp.post[1]))
         IN  IF InI64(d) THEN AbsThenCompare(d, checks)
             ELSE IF checks THEN "panic"
             ELSE AbsThenCompare(WrapI64(d), checks)

\* the response as a task remembers it
Class(resp) ==
    IF resp.kind = "meta" /\ (resp.pre = <<>> \/ resp.post = <<>>)
    THEN "meta_empty" ELSE resp.kind

\* every (class, decision) pair a lookup can lead to
EvalCases ==
    {<<Class(r), Evaluate(r, c)>> : r \in Responses, c \in BOOLEAN}

\* ---------------------------------------------------------------- pipeline
NoTask == [pc |-> "none", got |-> "none", lookups |-> 0, alerts |-> 0, posts |-> 0]

NoProbe == [resp |-> Response("no_meta", <<>>, <<>>), checks |-> FALSE,
            task |-> NoTask, sent |-> "none"]

Exited == {"exit_ok", "exit_err"}

\* the Sender lives in main's frame and is dropped when main returns
TxAlive == mainPc \notin Exited

\* the Receiver lives in the dispatcher task and is dropped with it
RxAlive == dispPc = "recv"

InFlight == {"spawned", "lookup", "posting"}

\* State after main.rs:16-45: configuration read, channel created, the
\* dispatcher task spawned, main about to connect.
Init ==
    /\ mainPc = "connect"
    /\ delivered = 0
    /\ pending = 0
    /\ queue = <<>>
    /\ dispPc = "recv"
    /\ runtimeUp = TRUE
    /\ tasks = [i \in Ids |-> NoTask]
    /\ env \in [token : BOOLEAN, chat : BOOLEAN]
    /\ failedIds = {}
    /\ enq = <<>>
    /\ started = <<>>
    /\ probe = NoProbe

\* main.rs:49  PubsubClient::new(&ws_url).await?
Connect ==
    /\ mainPc = "connect"
    /\ \E ok \in BOOLEAN : mainPc' = IF ok THEN "subscribe" ELSE "exit_err"
    /\ UNCHANGED <<delivered, pending, queue, dispPc, runtimeUp, tasks, env,
                   failedIds, enq, started, probe>>

\* main.rs:54  pubsub_client.logs_subscribe(filter, config).await?
Subscribe ==
    /\ mainPc = "subscribe"
    /\ \E ok \in BOOLEAN : mainPc' = IF ok THEN "next" ELSE "exit_err"
    /\ UNCHANGED <<delivered, pending, queue, dispPc, runtimeUp, tasks, env,
                   failedIds, enq, started, probe>>

\* mutant of StreamEvent: the logs.err test is missing, every event is sent
StreamEventNoFilter ==
    /\ mainPc = "next"
    /\ delivered < MaxEvents
    /\ delivered' = delivered + 1
    /\ \E failed \in BOOLEAN :
          /\ failedIds' = IF failed THEN failedIds \cup {delivered + 1} ELSE failedIds
          /\ pending' = delivered + 1
          /\ mainPc' = "send"
    /\ UNCHANGED <<queue, dispPc, runtimeUp, tasks, env, enq, started, probe>>

\* main.rs:58-60  stream.next() yields an event: a failed one is skipped
\* (continue), the signature of any other is handed to tx.send.
StreamEvent ==
    /\ mainPc = "next"
    /\ delivered < MaxEvents
    /\ delivered' = delivered + 1
    /\ \E failed \in BOOLEAN :
          IF failed
          THEN /\ failedIds' = failedIds \cup {delivered + 1}
               /\ UNCHANGED <<mainPc, pending>>
          ELSE /\ pending' = delivered + 1
               /\ mainPc' = "send"
               /\ UNCHANGED failedIds
    /\ UNCHANGED <<queue, dispPc, runtimeUp, tasks, env, enq, started, probe>>

\* mutant of StreamEnd: the end of the stream is returned as an error
StreamEndIsError ==
    /\ mainPc = "next"
    /\ mainPc' = "exit_err"
    /\ UNCHANGED <<delivered, pending, queue, dispPc, runtimeUp, tasks, env,
                   failedIds, enq, started, probe>>

\* mutant of StreamEnd: when the stream ends main connects again
StreamEndReconnects ==
    /\ mainPc = "next"
    /\ mainPc' = "connect"
    /\ UNCHANGED <<delivered, pending, queue, dispPc, runtimeUp, tasks, env,
                   failedIds, enq, started, probe>>

\* main.rs:58,64  stream.next() yields None: the loop ends, main returns Ok(())
StreamEnd ==
    /\ mainPc = "next"
    /\ mainPc' = "exit_ok"
    /\ UNCHANGED <<delivered, pending, queue, dispPc, runtimeUp, tasks, env,
                   failedIds, enq, started, probe>>

\* mutant of Send: try_send semantics, a signature that finds the channel
\* full is dropped
SendDropsWhenFull ==
    /\ mainPc = "send"
    /\ IF Len(queue) < Capacity
       THEN /\ queue' = Append(queue, pending)
            /\ enq' = Append(enq, pending)
       ELSE UNCHANGED <<queue, enq>>
    /\ pending' = 0
    /\ mainPc' = "next"
    /\ UNCHANGED <<delivered, dispPc, runtimeUp, tasks, env, failedIds,
                   started, probe>>

\* mutant of Send: the send is followed by `?`, so a closed channel makes
\* main return the error
SendErrorIsFatal ==
    /\ mainPc = "send"
    /\ IF dispPc # "recv"
       THEN /\ mainPc' = "exit_err"
            /\ pending' = 0
            /\ UNCHANGED <<queue, enq>>
       ELSE /\ Len(queue) < Capacity
            /\ queue' = Append(queue, pending)
            /\ enq' = Append(enq, pending)
            /\ pending' = 0
            /\ mainPc' = "next"
    /\ UNCHANGED <<delivered, dispPc, runtimeUp, tasks, env, failedIds,
                   started, probe>>

\* main.rs:61  tx.send(signature).await: an error (receiver gone) breaks the
\* loop; otherwise the send completes once the channel has a free slot.
Send ==
    /\ mainPc = "send"
    /\ IF ~RxAlive
       THEN /\ mainPc' = "exit_ok"
            /\ pending' = 0
            /\ UNCHANGED <<queue, enq>>
       ELSE /\ Len(queue) < Capacity
            /\ queue' = Append(queue, pending)
            /\ enq' = Append(enq, pending)
            /\ pending' = 0
            /\ mainPc' = "next"
    /\ UNCHANGED <<delivered, dispPc, runtimeUp, tasks, env, failedIds,
                   started, probe>>

\* mutant of Dispatch: the spawned task is awaited, so the next recv waits
\* until no task is in flight
DispatchAwaitsTask ==
    /\ dispPc = "recv"
    /\ runtimeUp
    /\ \A i \in Ids : tasks[i].pc \notin {"spawned", "lookup", "posting"}
    /\ IF queue # <<>>
       THEN /\ queue' = Tail(queue)
            /\ tasks' = [tasks EXCEPT ![Head(queue)].pc = "spawned"]
            /\ started' = Append(started, Head(queue))
            /\ UNCHANGED dispPc
       ELSE /\ mainPc \in {"exit_ok", "exit_err"}
            /\ dispPc' = "exited"
            /\ UNCHANGED <<queue, tasks, started>>
    /\ UNCHANGED <<mainPc, delivered, pending, runtimeUp, env, failedIds,
                   enq, probe>>

\* mutant of Dispatch: a signature received while a task is in flight is
\* taken from the channel and dropped without a task
DispatchSkipsWhenBusy ==
    /\ dispPc = "recv"
    /\ runtimeUp
    /\ IF queue # <<>>
       THEN /\ queue' = Tail(queue)
            /\ IF \E i \in Ids : tasks[i].pc \in InFlight
               THEN UNCHANGED <<tasks, started>>
               ELSE /\ tasks' = [tasks EXCEPT ![Head(queue)].pc = "spawned"]
                    /\ started' = Append(started, Head(queue))
            /\ UNCHANGED dispPc
       ELSE /\ ~TxAlive
            /\ dispPc' = "exited"
            /\ UNCHANGED <<queue, tasks, started>>
    /\ UNCHANGED <<mainPc, delivered, pending, runtimeUp, env, failedIds,
                   enq, probe>>

\* mutant of Dispatch: a pool of Capacity workers, the next signature is
\* received only when fewer than Capacity tasks are in flight
DispatchCapped ==
    /\ dispPc = "recv"
    /\ runtimeUp
    /\ IF queue # <<>>
       THEN /\ Cardinality({i \in Ids : tasks[i].pc \in InFlight}) < Capacity
            /\ queue' = Tail(queue)
            /\ tasks' = [tasks EXCEPT ![Head(queue)].pc = "spawned"]
            /\ started' = Append(started, Head(queue))
            /\ UNCHANGED dispPc
       ELSE /\ ~TxAlive
            /\ dispPc' = "exited"
            /\ UNCHANGED <<queue, tasks, started>>
    /\ UNCHANGED <<mainPc, delivered, pending, runtimeUp, env, failedIds,
                   enq, probe>>

\* main.rs:35-44  one turn of the dispatcher loop: rx.recv() yields the
\* oldest signature and a task is spawned for it, or yields None (channel
\* empty and the sender dropped) and the loop ends.  Nothing here waits for
\* a task spawned earlier.
Dispatch ==
    /\ dispPc = "recv"
    /\ runtimeUp
    /\ IF queue # <<>>
       THEN /\ queue' = Tail(queue)
            /\ tasks' = [tasks EXCEPT ![Head(queue)].pc = "spawned"]
            /\ started' = Append(started, Head(queue))
            /\ UNCHANGED dispPc
       ELSE /\ ~TxAlive
            /\ dispPc' = "exited"
            /\ UNCHANGED <<queue, tasks, started>>
    /\ UNCHANGED <<mainPc, delivered, pending, runtimeUp, env, failedIds,
                   enq, probe>>

\* #[tokio::main] (main.rs:14): when main returns, the runtime is dropped;
\* the dispatcher and every task that has not finished are cancelled at
\* their await, and whatever is still in the channel is never received.
Shutdown ==
    /\ mainPc \in Exited
    /\ runtimeUp
    /\ runtimeUp' = FALSE
    /\ dispPc' = IF dispPc = "recv" THEN "cancelled" ELSE dispPc
    /\ tasks' = [i \in Ids |->
                    IF tasks[i].pc \in InFlight
                    THEN [tasks[i] EXCEPT !.pc = "cancelled"]
                    ELSE tasks[i]]
    /\ UNCHANGED <<mainPc, delivered, pending, queue, env, failedIds, enq,
                   started, probe>>

\* mutant of TaskStart: the dispatcher awaits the task with `?`, so a task's
\* error ends the dispatcher loop
TaskStartErrorEscapes(id) ==
    /\ runtimeUp
    /\ tasks[id].pc = "spawned"
    /\ \E parses \in BOOLEAN :
          /\ tasks' = [tasks EXCEPT ![id] =
                          IF parses
                          THEN [@ EXCEPT !.pc = "lookup", !.lookups = @ + 1]
                          ELSE [@ EXCEPT !.pc = "err"]]
          /\ dispPc' = IF parses THEN dispPc ELSE "exited"
    /\ UNCHANGED <<mainPc, delivered, pending, queue, runtimeUp, env,
                   failedIds, enq, started, probe>>

\* mutant of TaskStart: the lookup is issued with the raw string and the
\* signature is parsed only afterwards
TaskStartParsesLate(id) ==
    /\ runtimeUp
    /\ tasks[id].pc = "spawned"
    /\ \E parses \in BOOLEAN :
          tasks' = [tasks EXCEPT ![id] =
                       IF parses
                       THEN [@ EXCEPT !.pc = "lookup", !.lookups = @ + 1]
                       ELSE [@ EXCEPT !.pc = "err", !.lookups = @ + 1]]
    /\ UNCHANGED <<mainPc, delivered, pending, queue, dispPc, runtimeUp, env,
                   failedIds, enq, started, probe>>

\* main.rs:68-69  the task parses the signature; `?` returns the error,
\* otherwise get_transaction is issued and awaited
TaskStart(id) ==
    /\ runtimeUp
    /\ tasks[id].pc = "spawned"
    /\ \E parses \in BOOLEAN :
          tasks' = [tasks EXCEPT ![id] =
                       IF parses
                       THEN [@ EXCEPT !.pc = "lookup", !.lookups = @ + 1]
                       ELSE [@ EXCEPT !.pc = "err"]]
    /\ UNCHANGED <<mainPc, delivered, pending, queue, dispPc, runtimeUp, env,
                   failedIds, enq, started, probe>>

\* mutant of AlertCall: only TELEGRAM_TOKEN is tested, as at startup
\* (main.rs:23)
AlertCallTokenOnly(t) ==
    IF env.token
    THEN [t EXCEPT !.alerts = @ + 1, !.posts = @ + 1, !.pc = "posting"]
    ELSE [t EXCEPT !.alerts = @ + 1, !.pc = "ok"]

\* main.rs:101-130  send_telegram_alert up to its await: without both
\* variables it returns at once, otherwise one POST is issued
AlertCall(t) ==
    IF env.token /\ env.chat
    THEN [t EXCEPT !.alerts = @ + 1, !.posts = @ + 1, !.pc = "posting"]
    ELSE [t EXCEPT !.alerts = @ + 1, !.pc = "ok"]

\* mutant of AfterLookup: the lookup is awaited with `?`, so its error
\* becomes the task's error
AfterLookupErrorEscapes(t, class, decision) ==
    LET u == [t EXCEPT !.got = class]
    IN  CASE class \in {"not_found", "transport_error"} -> [u EXCEPT !.pc = "err"]
          [] decision = "alert" ->
                IF env.token /\ env.chat
                THEN [u EXCEPT !.alerts = @ + 1, !.posts = @ + 1, !.pc = "posting"]
                ELSE [u EXCEPT !.alerts = @ + 1, !.pc = "ok"]
          [] decision = "panic" -> [u EXCEPT !.pc = "panicked"]
          [] OTHER              -> [u EXCEPT !.pc = "ok"]

\* mutant of AfterLookup: a lookup that reports an error is issued once more
AfterLookupRetries(t, class, decision) ==
    LET u == [t EXCEPT !.got = class]
    IN  CASE class \in {"not_found", "transport_error"} /\ t.lookups < 2 ->
                [u EXCEPT !.lookups = @ + 1]
          [] decision = "alert" -> AlertCall(u)
          [] decision = "panic" -> [u EXCEPT !.pc = "panicked"]
          [] OTHER              -> [u EXCEPT !.pc = "ok"]

\* main.rs:69-97  get_transaction answers and the task runs to its next
\* await or to its end
AfterLookup(t, class, decision) ==
    LET u == [t EXCEPT !.got = class]
    IN  CASE decision = "alert" -> AlertCall(u)
          [] decision = "panic" -> [u EXCEPT !.pc = "panicked"]
          [] OTHER              -> [u EXCEPT !.pc = "ok"]

\* mutant of LookupReturn: answers are handed out in spawn order, a task
\* gets its answer only when no task spawned before it is still in flight
LookupReturnInOrder(id) ==
    /\ runtimeUp
    /\ tasks[id].pc = "lookup"
    /\ \A j \in Ids : j < id => tasks[j].pc \notin InFlight
    /\ \E c \in EvalCases :
          tasks' = [tasks EXCEPT ![id] = AfterLookup(@, c[1], c[2])]
    /\ UNCHANGED <<mainPc, delivered, pending, queue, dispPc, runtimeUp, env,
                   failedIds, enq, started, probe>>

LookupReturn(id) ==
    /\ runtimeUp
    /\ tasks[id].pc = "lookup"
    /\ \E c \in EvalCases :
          tasks' = [tasks EXCEPT ![id] = AfterLookup(@, c[1], c[2])]
    /\ UNCHANGED <<mainPc, delivered, pending, queue, dispPc, runtimeUp, env,
                   failedIds, enq, started, probe>>

\* mutant of AfterPost: a POST that did not succeed is tried once more
AfterPostRetries(t, result) ==
    IF result # "success" /\ t.posts < 2
    THEN [t EXCEPT !.posts = @ + 1]
    ELSE [t EXCEPT !.pc = "ok"]

\* main.rs:130-143  the POST ends (2xx, another status, or a transport
\* error); each arm only prints, send_telegram_alert returns and the task
\* returns Ok(()) (main.rs:93,97)
AfterPost(t, result) == [t EXCEPT !.pc = "ok"]

PostResults == {"success", "non_success", "transport_error"}

PostReturn(id) ==
    /\ runtimeUp
    /\ tasks[id].pc = "posting"
    /\ \E r \in PostResults :
          tasks' = [tasks EXCEPT ![id] = AfterPost(@, r)]
    /\ UNCHANGED <<mainPc, delivered, pending, queue, dispPc, runtimeUp, env,
                   failedIds, enq, started, probe>>

Next ==
    \/ Connect
    \/ Subscribe
    \/ StreamEvent
    \/ StreamEnd
    \/ Send
    \/ Dispatch
    \/ Shutdown
    \/ \E id \in Ids : TaskStart(id)
    \/ \E id \in Ids : LookupReturn(id)
    \/ \E id \in Ids : PostReturn(id)

Spec == Init /\ [][Next]_vars

\* The scheduler polls a woken task: the dispatcher when the channel has an
\* item or is closed, main when the channel has a free slot.  Nothing is
\* assumed about the lookups and POSTs the enrichment tasks wait for.
FairSpec == Spec /\ WF_vars(Dispatch) /\ WF_vars(Send)

\* #[tokio::main] (main.rs:14) drops the runtime as soon as main's future
\* has returned, so Shutdown is taken once it is enabled.
TermSpec == FairSpec /\ WF_vars(Shutdown)

\* ------------------------------------------- one task's lookup in isolation
\* A single task that has issued its lookup; the answer is drawn from all
\* of Responses and kept, so that its outcome can be compared with it.
EvalInit ==
    /\ mainPc = "connect"
    /\ delivered = 0
    /\ pending = 0
    /\ queue = <<>>
    /\ dispPc = "recv"
    /\ runtimeUp = TRUE
    /\ tasks = [i \in Ids |-> NoTask]
    /\ env \in [token : BOOLEAN, chat : BOOLEAN]
    /\ failedIds = {}
    /\ enq = <<>>
    /\ started = <<>>
    /\ probe \in [resp : Responses, checks : BOOLEAN,
                  task : {[NoTask EXCEPT !.pc = "lookup", !.lookups = 1]},
                  sent : {"none"}]

ProbeLookupReturn ==
    /\ probe.task.pc = "lookup"
    /\ probe' = [probe EXCEPT !.task =
                    AfterLookup(@, Class(probe.resp), Evaluate(probe.resp, probe.checks))]
    /\ UNCHANGED <<mainPc, delivered, pending, queue, dispPc, runtimeUp, tasks,
                   env, failedIds, enq, started>>

ProbePostReturn ==
    /\ probe.task.pc = "posting"
    /\ \E r \in PostResults :
          probe' = [probe EXCEPT !.task = AfterPost(@, r), !.sent = r]
    /\ UNCHANGED <<mainPc, delivered, pending, queue, dispPc, runtimeUp, tasks,
                   env, failedIds, enq, started>>

EvalNext == ProbeLookupReturn \/ ProbePostReturn

EvalSpec == EvalInit /\ [][EvalNext]_vars

\* ------------------------------------------------ the consumer side closes
\* main.rs:31-33  the dispatcher task can die before it reaches its loop
\* (println! panics when stdout is closed); its Receiver is dropped with
\* it, which closes the channel under the producer.
DispatcherDies ==
    /\ dispPc = "recv"
    /\ runtimeUp
    /\ started = <<>>
    /\ dispPc' = "panicked"
    /\ UNCHANGED <<mainPc, delivered, pending, queue, runtimeUp, tasks, env,
                   failedIds, enq, started, probe>>

ClosedNext == Next \/ DispatcherDies

ClosedSpec == Init /\ [][ClosedNext]_vars

\* ------------------------------------------------------------------ claims
Range(q) == {q[i] : i \in 1..Len(q)}

ProducerBlocked == mainPc = "send" /\ Len(queue) = Capacity

Failed(t) == t.pc \in {"err", "panicked"}

\* C1: a slow enrichment never blocks ingestion.  While main is in its loop
\* a non-empty queue always lets the dispatcher take its next turn, whatever
\* the tasks started earlier are doing, and a producer suspended on a full
\* queue is eventually resumed even when no task ever makes a step.
C1_SlowTaskNeverBlocks ==
    /\ []((TxAlive /\ queue # <<>>) => ENABLED Dispatch)
    /\ (ProducerBlocked ~> (mainPc # "send"))

\* the producer is suspended on a full queue while every task started so
\* far is still in flight
C1_Witness ==
    /\ ProducerBlocked
    /\ started # <<>>
    /\ \A i \in Range(started) : tasks[i].pc \in InFlight

\* C2: backpressure without loss.  The queue never holds more than Capacity
\* signatures; while it is full a producer holding a signature stays
\* suspended on that signature; a send that completes appends exactly that
\* signature to the queue; and every non-failed signature delivered is the
\* pending one or has been enqueued.
C2_BackpressureNoLoss ==
    /\ [](Len(queue) <= Capacity)
    /\ [](\A i \in 1..delivered :
             i \in failedIds \/ i = pending \/ i \in Range(enq))
    /\ [][ProducerBlocked =>
             /\ mainPc' = "send" /\ pending' = pending /\ enq' = enq
             /\ queue' \in {queue, Tail(queue)}]_vars
    /\ [][(mainPc = "send" /\ mainPc' # "send") =>
             /\ Len(queue) < Capacity
             /\ queue' = Append(queue, pending)
             /\ enq' = Append(enq, pending)]_vars

\* more signatures than the queue holds have been enqueued, the queue is
\* full and the producer is suspended on the next one
C2_Witness ==
    /\ ProducerBlocked
    /\ pending \notin failedIds
    /\ Len(enq) > Capacity

\* C3: the signature of an event delivered with logs.err present is never
\* pending, never in the queue, never enqueued, and no task, lookup or alert
\* exists for it.
C3_FailedNeverEnqueued ==
    \A i \in failedIds :
        /\ i # pending
        /\ i \notin Range(queue)
        /\ i \notin Range(enq)
        /\ i \notin Range(started)
        /\ tasks[i] = NoTask

\* a failed event was delivered and skipped, and a later event went all the
\* way to an alert
C3_Witness ==
    \E i \in failedIds : \E j \in Ids :
        i < j /\ tasks[j].alerts = 1 /\ tasks[j].pc = "ok"

\* the exact |pre - post| of two u64 balances
MathAbsDiff(pre, post) ==
    IF BLe(post, pre) THEN BSub(pre, post) ELSE BSub(post, pre)

\* 0.1 SOL in lamports
ThresholdLamports == <<0, 0, LamportsPerSol \div 10>>

Qualifies(resp) ==
    BLt(ThresholdLamports, MathAbsDiff(resp.pre[1], resp.post[1]))

ProbeAnswered == probe.task.pc \notin {"none", "lookup"}

\* C4: a task whose lookup succeeds with non-empty balance lists calls
\* send_telegram_alert exactly once if |pre[0] - post[0]| exceeds 0.1 SOL
\* (10^8 lamports), and never otherwise.
C4_AlertIffAboveThreshold ==
    (ProbeAnswered /\ Class(probe.resp) = "meta") =>
        probe.task.alerts = IF Qualifies(probe.resp) THEN 1 ELSE 0

\* The same for balances below 2^63, where the casts of main.rs:77 keep
\* the values.
AlertIffAboveThresholdBelowTwoP63 ==
    (/\ ProbeAnswered
     /\ Class(probe.resp) = "meta"
     /\ BLt(probe.resp.pre[1], TwoP63)
     /\ BLt(probe.resp.post[1], TwoP63)) =>
        /\ probe.task.alerts = IF Qualifies(probe.resp) THEN 1 ELSE 0
        /\ probe.task.pc # "panicked"

TaskStep(id) == TaskStart(id) \/ LookupReturn(id) \/ PostReturn(id)

\* C5: failure isolation.  The step in which a task ends in an error changes
\* nothing of main, of the dispatcher, of the queue or of any other task;
\* and with failed tasks around, main and the dispatcher are still running
\* and every step they or another task could take is still enabled.
C5_FailureIsolation ==
    /\ [][\A id \in Ids :
            (~Failed(tasks[id]) /\ Failed(tasks'[id])) =>
                /\ UNCHANGED <<mainPc, delivered, pending, queue, dispPc,
                               runtimeUp, enq, started>>
                /\ \A j \in Ids \ {id} : tasks'[j] = tasks[j]]_vars
    /\ []((\E id \in Ids : Failed(tasks[id])) =>
            /\ TxAlive => (dispPc = "recv" /\ runtimeUp)
            /\ (TxAlive /\ queue # <<>>) => ENABLED Dispatch
            /\ (mainPc = "send" /\ Len(queue) < Capacity) => ENABLED Send
            /\ \A j \in Ids :
                  (runtimeUp /\ tasks[j].pc \in InFlight) => ENABLED TaskStep(j))

\* a task has failed, a task started after it has alerted and finished,
\* and main and the dispatcher are in their loops
C5_Witness ==
    /\ mainPc = "next"
    /\ dispPc = "recv"
    /\ \E i \in Ids : \E j \in Ids :
          /\ i < j
          /\ Failed(tasks[i])
          /\ tasks[j].pc = "ok" /\ tasks[j].alerts = 1

\* C6: on shutdown the consumer drains.  Once the dispatcher has stopped
\* (its loop ended or the runtime is gone), nothing is left in the queue and
\* every signature enqueued has had its task started.
C6_DrainOnShutdown ==
    (dispPc # "recv" \/ ~runtimeUp) => (queue = <<>> /\ started = enq)

LookupErrors == {"not_found", "transport_error"}

\* C7: a task whose lookup reports not-found or another error makes no
\* alert call and no POST and ends without error, and the step in which the
\* error arrives leaves main, the dispatcher and the queue as they were.
C7_LookupErrorSilent ==
    /\ [](\A id \in Ids :
            tasks[id].got \in LookupErrors =>
                tasks[id].pc = "ok" /\ tasks[id].alerts = 0 /\ tasks[id].posts = 0)
    /\ [][\A id \in Ids :
            (tasks[id].pc = "lookup" /\ tasks'[id].got \in LookupErrors) =>
                UNCHANGED <<mainPc, delivered, pending, queue, dispPc, runtimeUp>>]_vars

\* a lookup reported not-found while main and the dispatcher are looping
C7_Witness ==
    /\ mainPc \in {"next", "send"}
    /\ dispPc = "recv"
    /\ \E id \in Ids : tasks[id].got = "not_found" /\ tasks[id].pc = "ok"

\* C8: a lookup answer without meta, or whose pre or post balance list is
\* empty, makes the task return normally (no panic, no error) without an
\* alert call.
C8_EmptyBalancesNoResult ==
    (ProbeAnswered /\ Class(probe.resp) \in {"no_meta", "meta_empty"}) =>
        /\ probe.task.pc = "ok"
        /\ probe.task.alerts = 0
        /\ probe.task.posts = 0

\* the answer had post balances but no pre balances, and the task is done
C8_Witness ==
    /\ probe.task.pc = "ok"
    /\ probe.resp.kind = "meta"
    /\ probe.resp.pre = <<>>
    /\ probe.resp.post # <<>>

\* C9: observe-only mode.  With TELEGRAM_TOKEN or TELEGRAM_CHAT_ID absent no
\* task ever issues or waits for a POST, and a task that has called
\* send_telegram_alert has returned normally.
C9_ObserveOnly ==
    ~(env.token /\ env.chat) =>
        \A id \in Ids :
            /\ tasks[id].posts = 0
            /\ tasks[id].pc # "posting"
            /\ tasks[id].alerts = 1 => tasks[id].pc = "ok"

\* the token is set and the chat id is not, startup succeeded, a task has
\* called send_telegram_alert and ended, and a later event is being handled
C9_Witness ==
    /\ env.token /\ ~env.chat
    /\ mainPc \in {"next", "send"}
    /\ \E i \in Ids : \E j \in Ids :
          /\ tasks[i].alerts = 1 /\ tasks[i].pc = "ok"
          /\ i < j /\ tasks[j].pc \in InFlight

\* C10: best-effort delivery.  A call of send_telegram_alert issues at most
\* one POST; however the POST ends (2xx, another status, transport error),
\* the call returns and the task ends with Ok(()) after that single POST.
C10_BestEffortDelivery ==
    /\ probe.task.alerts <= 1
    /\ probe.task.posts <= probe.task.alerts
    /\ probe.sent # "none" =>
          /\ probe.task.pc = "ok"
          /\ probe.task.alerts = 1
          /\ probe.task.posts = 1

\* the POST failed in transport and the task ended normally
C10_Witness ==
    /\ probe.sent = "transport_error"
    /\ probe.task.pc = "ok"
    /\ probe.task.posts = 1

\* C11: queue closure is a clean stop.  A send that fails because the
\* receiver is gone ends the producer loop with Ok(()) and enqueues nothing;
\* once main has returned Ok(()) it stays so and nothing more is delivered
\* or enqueued; and the dispatcher loop ends only on a channel that is
\* closed and empty.
C11_ClosureIsCleanStop ==
    /\ [][(mainPc = "send" /\ dispPc # "recv" /\ mainPc' # "send") =>
             (mainPc' = "exit_ok" /\ enq' = enq /\ queue' = queue)]_vars
    /\ [][mainPc = "exit_ok" =>
             (mainPc' = "exit_ok" /\ enq' = enq /\ delivered' = delivered)]_vars
    /\ []((mainPc = "send" /\ dispPc # "recv") => ENABLED Send)
    /\ [][(dispPc = "recv" /\ dispPc' = "exited") =>
             (queue = <<>> /\ ~TxAlive)]_vars

\* a send failed on the closed channel: main has returned Ok(()) although a
\* non-failed signature it was handed was never enqueued
C11_Witness ==
    /\ mainPc = "exit_ok"
    /\ dispPc = "panicked"
    /\ \E i \in 1..delivered : i \notin failedIds /\ i \notin Range(enq)

\* C12: no ordering between tasks.  While a task spawned earlier is still in
\* flight, a task spawned later that waits for its lookup can get its answer
\* and one that waits for its POST can have it delivered: nothing makes the
\* later task wait for the earlier one, so alerts can come out in another
\* order than the signatures went in.
C12_NoOrderingBetweenTasks ==
    [](\A a, b \in Ids :
          (runtimeUp /\ a < b /\ tasks[a].pc \in InFlight) =>
             /\ (tasks[b].pc = "lookup" => ENABLED LookupReturn(b))
             /\ (tasks[b].pc = "posting" => ENABLED PostReturn(b)))

\* A was enqueued before B, both qualify, B's alert has been delivered and
\* A's is still on its way
C12_Witness ==
    \E i, j \in 1..Len(enq) :
       /\ i < j
       /\ tasks[enq[j]].pc = "ok" /\ tasks[enq[j]].posts = 1
       /\ tasks[enq[i]].pc = "posting" /\ tasks[enq[i]].posts = 1

\* the decision main.rs:81 takes on a computed difference
DecisionOn(dl) ==
    IF dl.panic THEN "panic"
    ELSE IF ExceedsThreshold(dl.val) THEN "alert" ELSE "skip"

\* C13: the amount computation is symmetric.  For the balances of an
\* answered lookup, the difference computed for (pre, post) is the one
\* computed for (post, pre), value or panic alike; the task's decision is
\* the decision on that difference, and the task would have decided the
\* same had the answer carried the two balance lists the other way round.
C13_AmountSymmetric ==
    (ProbeAnswered /\ Class(probe.resp) = "meta") =>
        LET pre == probe.resp.pre[1]
            post == probe.resp.post[1]
            swapped == Response("meta", probe.resp.post, probe.resp.pre)
            dl == DiffLamports(pre, post, probe.checks)
        IN  /\ dl = DiffLamports(post, pre, probe.checks)
            /\ Evaluate(probe.resp, probe.checks) = DecisionOn(dl)
            /\ Evaluate(swapped, probe.checks) = DecisionOn(dl)
            /\ probe.task.alerts = IF DecisionOn(dl) = "alert" THEN 1 ELSE 0
            /\ (probe.task.pc = "panicked") <=> dl.panic

\* the balance rose by more than the threshold (pre < post) and the task
\* alerted, as it does for the same fall
C13_Witness ==
    /\ ProbeAnswered
    /\ Class(probe.resp) = "meta"
    /\ BLt(probe.resp.pre[1], probe.resp.post[1])
    /\ BLt(probe.resp.post[1], TwoP63)
    /\ probe.task.alerts = 1

InFlightCount == Cardinality({i \in Ids : tasks[i].pc \in InFlight})

\* C15: fan-out is not capped by the queue capacity.  With Capacity or more
\* tasks in flight the dispatcher still takes the next signature from a
\* non-empty channel, and the task it spawns adds to those in flight; the
\* number in flight is limited only by the number of signatures received.
C15_FanOutNotCapped ==
    /\ []((dispPc = "recv" /\ runtimeUp /\ queue # <<>> /\ InFlightCount >= Capacity)
             => ENABLED Dispatch)
    /\ [][(InFlightCount >= Capacity /\ started' # started)
             => InFlightCount' = InFlightCount + 1]_vars
    /\ [](InFlightCount <= Len(started))

\* more tasks are in flight than the channel has slots
C15_Witness ==
    /\ InFlightCount > Capacity
    /\ runtimeUp

Untouched ==
    /\ delivered = 0
    /\ pending = 0
    /\ failedIds = {}
    /\ enq = <<>>
    /\ queue = <<>>
    /\ started = <<>>
    /\ \A i \in Ids : tasks[i] = NoTask

\* C16: startup failure is fatal and side-effect free.  main leaves the
\* connection attempt and the subscription attempt only forward or with an
\* error; having returned the error it stays returned; and in a state where
\* main is still starting up or has returned an error, no event was taken
\* from the stream, nothing was enqueued, no task was spawned and no alert
\* call or POST was made, although the dispatcher task exists from the
\* start.
C16_StartupFailureFatal ==
    /\ [](mainPc \in {"connect", "subscribe", "exit_err"} => Untouched)
    /\ [](mainPc = "exit_err" => dispPc \in {"recv", "exited", "cancelled"})
    /\ [][mainPc = "connect" => mainPc' \in {"connect", "subscribe", "exit_err"}]_vars
    /\ [][mainPc = "subscribe" => mainPc' \in {"subscribe", "next", "exit_err"}]_vars
    /\ [][mainPc = "exit_err" => (mainPc' = "exit_err" /\ Untouched')]_vars

\* main has returned the startup error and the runtime took the waiting
\* dispatcher down with it
C16_Witness ==
    /\ mainPc = "exit_err"
    /\ ~runtimeUp
    /\ dispPc = "cancelled"

\* C17: connection loss is terminal.  From its wait on the stream main goes
\* only to a send or to its return with Ok(()), never back to connecting or
\* subscribing; after that return main stays returned, no event is taken
\* and nothing is enqueued; and the process then terminates: the runtime is
\* dropped and nothing runs in it any more.
C17_ConnectionLossTerminal ==
    /\ [][mainPc = "next" => mainPc' \in {"next", "send", "exit_ok"}]_vars
    /\ [][(mainPc \in {"next", "send"}) => (mainPc' \notin {"connect", "subscribe"})]_vars
    /\ [][mainPc = "exit_ok" =>
             /\ mainPc' = "exit_ok"
             /\ UNCHANGED <<delivered, pending, failedIds, enq>>]_vars
    /\ (mainPc = "exit_ok") ~>
          (/\ mainPc = "exit_ok"
           /\ ~runtimeUp
           /\ dispPc # "recv"
           /\ \A i \in Ids : tasks[i].pc \notin InFlight)

\* the stream ended after at least one event, main returned Ok(()) and the
\* process is gone, a task in flight with it
C17_Witness ==
    /\ mainPc = "exit_ok"
    /\ ~runtimeUp
    /\ delivered >= 1
    /\ \E i \in Ids : tasks[i].pc = "cancelled"

Finished == {"ok", "err", "panicked", "cancelled"}

\* C18: single-shot task.  A task issues at most one lookup and makes at
\* most one alert call, and an alert call only after its one lookup
\* succeeded; the step in which the lookup is answered issues no further
\* lookup and either ends the task or leaves it waiting for its one POST;
\* the step in which the POST returns ends it; and a task that has ended
\* does nothing more.
C18_SingleShotTask ==
    /\ [](\A id \in Ids :
            /\ tasks[id].lookups <= 1
            /\ tasks[id].alerts <= 1
            /\ tasks[id].posts <= tasks[id].alerts
            /\ tasks[id].alerts = 1 => (tasks[id].got = "meta" /\ tasks[id].lookups = 1)
            /\ tasks[id].got # "none" => tasks[id].lookups = 1)
    /\ [][\A id \in Ids :
            (tasks[id].pc = "lookup" /\ tasks'[id] # tasks[id]) =>
                /\ tasks'[id].lookups = tasks[id].lookups
                /\ tasks'[id].pc \in Finished \cup {"posting"}
                /\ tasks'[id].pc = "posting" => tasks'[id].alerts = 1]_vars
    /\ [][\A id \in Ids :
            (tasks[id].pc = "posting" /\ tasks'[id] # tasks[id]) =>
                /\ tasks'[id].pc \in Finished
                /\ tasks'[id].lookups = 1 /\ tasks'[id].posts = 1]_vars
    /\ [][\A id \in Ids :
            tasks[id].pc \in Finished => tasks'[id] = tasks[id]]_vars

\* one task ended after a transport error of its single lookup, another
\* after its single lookup and single POST
C18_Witness ==
    \E i, j \in Ids :
       /\ tasks[i].got = "transport_error" /\ tasks[i].pc = "ok" /\ tasks[i].lookups = 1
       /\ tasks[j].pc = "ok" /\ tasks[j].posts = 1 /\ tasks[j].lookups = 1

\* C19: a signature that does not parse.  A task that ended with an error
\* has issued no lookup, received no answer and made no alert call or POST;
\* it got there in one step from its start, a step that changes nothing of
\* main, the dispatcher, the channel or any other task; and with such a
\* task around the dispatcher still takes the next signature.
C19_UnparsableIdNoLookup ==
    /\ [](\A id \in Ids :
            tasks[id].pc = "err" =>
                /\ tasks[id].lookups = 0
                /\ tasks[id].got = "none"
                /\ tasks[id].alerts = 0
                /\ tasks[id].posts = 0)
    /\ [][\A id \in Ids :
            (tasks[id].pc # "err" /\ tasks'[id].pc = "err") =>
                /\ tasks[id].pc = "spawned"
                /\ UNCHANGED <<mainPc, delivered, pending, queue, dispPc,
                               runtimeUp, enq, started>>
                /\ \A j \in Ids \ {id} : tasks'[j] = tasks[j]]_vars
    /\ []((/\ \E id \in Ids : tasks[id].pc = "err"
           /\ dispPc = "recv" /\ runtimeUp /\ queue # <<>>) => ENABLED Dispatch)

\* a task ended on the parse error without a lookup, the dispatcher is
\* still receiving, and a task spawned after it has issued its lookup
C19_Witness ==
    /\ dispPc = "recv"
    /\ runtimeUp
    /\ \E i, j \in Ids :
          /\ i < j
          /\ tasks[i].pc = "err" /\ tasks[i].lookups = 0
          /\ tasks[j].pc = "lookup"

\* C20: for all u64 balances the difference computed by the cast, the
\* subtraction and `.abs()` is the mathematical |pre - post|: no panic, not
\* negative, and the exact value.
C20_DiffIsMathAbsDiff ==
    (ProbeAnswered /\ Class(probe.resp) = "meta") =>
        LET dl == DiffLamports(probe.resp.pre[1], probe.resp.post[1], probe.checks)
        IN  /\ ~dl.panic
            /\ ~dl.val.neg
            /\ dl.val.mag = MathAbsDiff(probe.resp.pre[1], probe.resp.post[1])

\* The same for balances below 2^63, where the casts keep the values and
\* the difference stays inside i64.
DiffIsMathAbsDiffBelowTwoP63 ==
    (/\ ProbeAnswered
     /\ Class(probe.resp) = "meta"
     /\ BLt(probe.resp.pre[1], TwoP63)
     /\ BLt(probe.resp.post[1], TwoP63)) =>
        DiffLamports(probe.resp.pre[1], probe.resp.post[1], probe.checks)
            = [panic |-> FALSE,
               val |-> Signed(FALSE, MathAbsDiff(probe.resp.pre[1], probe.resp.post[1]))]

====
